---- MODULE Spec2Model ----
(***************************************************************************)
(* VbsSubmissionService (src/src/app/core/vbs/vbs-submission.service.ts):  *)
(* the configuration listener, reset/cleanup of the three subscriptions,   *)
(* the interaction-log pipeline (bufferTime), the results pipeline         *)
(* (debounceTime) and the manual submission pipeline.                      *)
(*                                                                         *)
(* Optional values are sequences of length 0 (null / undefined) or 1.      *)
(* Strings that the code inspects (endpoint, objectId) are sequences of    *)
(* one-character strings.  JavaScript numbers are pairs <<"num", n>>,      *)
(* <<"nan", 0>>, <<"inf", 0>>.                                            *)
(***************************************************************************)
EXTENDS Integers, Sequences, FiniteSets, TLC

VARIABLES
    submitSubscription,          \* field _submitSubscription: 0 (null) or a subscription id
    interactionlogSubscription,  \* field _interactionlogSubscription
    resultsSubscription,         \* field _resultsSubscription
    submitSubs,                  \* live subscribers of _submitSubject: id -> closure
    ilogSubs,                    \* live subscribers of the event bus pipeline: id -> closure, buffer, timer
    resSubs,                     \* live subscribers of the query-state pipeline: id -> closure, debounce
    gen,                         \* number of reset() calls so far; reset number g creates subscriptions with id g
    latest,                      \* history: the last snapshot the configuration source emitted (<<>> before the first)
    delivered,                   \* history: the last tuple that passed the filter of _config (<<>> before the first)
    repeated,                    \* history: the last snapshot emitted equals the one emitted before it
    cfgCount,                    \* history: number of snapshots emitted
    isOnCount,                   \* history: number of values the isOn observable emitted
    isOnLast,                    \* history: the last value the isOn observable emitted
    nextEvent,                   \* the id the next interaction event published on the bus gets
    busWindow,                   \* history: events published since the running window opened
    ranking,                     \* QueryService.results: the current segment ranking
    endedCount,                  \* history: number of ENDED signals emitted by the query service
    burstCount,                  \* history: number of ENDED signals that came 1000 ms or more after the one before
    sinceEnded,                  \* history: ms since the last ENDED signal, capped at DebounceTime
    burstRanking,                \* history: the ranking at the last ENDED signal
    sent,                        \* history: every HTTP request handed to HttpClient, in order
    inflight,                    \* indices of sent whose response has not arrived
    failed,                      \* history: <<i, n>> when the call of sent[i] ended in an error
                                 \*          after n requests had been sent
    consoleLog,                  \* history: indices of sent whose response was written to the console
    snacks,                      \* history: notifications opened on the snack bar
    selected,                    \* SelectionService: the (tag, segment id) pairs added, in order
    submitCount                  \* history: number of submit() calls

vars == <<submitSubscription, interactionlogSubscription, resultsSubscription,
          submitSubs, ilogSubs, resSubs, gen, latest, delivered, repeated, cfgCount,
          isOnCount, isOnLast,
          nextEvent, busWindow, ranking, endedCount, burstCount, sinceEnded, burstRanking,
          sent, inflight, failed, consoleLog, snacks, selected, submitCount>>

----------------------------------------------------------------------------
(* Bounds of the model *)

MaxConfigs == 3
MaxEvents == 3
MaxEnded == 3
MaxSubmits == 2
TickMs == 500

(* Program constants *)

DebounceTime == 1000
DefaultTool == 1
DefaultLogInterval == 5000

NULL == <<>>
NoSub == 0

Some(x) == <<x>>

Min(a, b) == IF a <= b THEN a ELSE b

----------------------------------------------------------------------------
(* Inputs *)

\* The snapshots the configuration source emits: two complete ones with logging
\* (team A leaves the tool id to its default), one without logging that leaves
\* log and loginterval to their defaults, one without endpoint, one without team
SnapA ==
    [endpoint |-> Some(<<"a", "/">>), team |-> Some("A"), tool |-> NULL,
     log |-> Some(TRUE), loginterval |-> Some(1000)]
SnapB ==
    [endpoint |-> Some(<<"b">>), team |-> Some("B"), tool |-> Some(2),
     log |-> Some(TRUE), loginterval |-> Some(1000)]
SnapNoLog ==
    [endpoint |-> Some(<<"b">>), team |-> Some("B"), tool |-> Some(2),
     log |-> NULL, loginterval |-> NULL]
SnapNoEndpoint == [SnapA EXCEPT !.endpoint = NULL]
SnapNoTeam == [SnapA EXCEPT !.team = NULL]

Snapshots == {SnapA, SnapB, SnapNoLog, SnapNoEndpoint, SnapNoTeam}

Rankings == {<<>>, <<1>>, <<2, 1>>}
QueryStates == {"STARTED", "ENDED"}

----------------------------------------------------------------------------
(* The configuration pipeline: this._config *)

\* String.prototype.endsWith for a one-character suffix
endsWith(str, ch) == Len(str) > 0 /\ str[Len(str)] = ch

\* String.prototype.slice(0, -1)
sliceLast(str) == IF Len(str) = 0 THEN str ELSE SubSeq(str, 1, Len(str) - 1)

\* filter(c => c.get('vbs.endpoint') != null)
configFilter(c) == c.endpoint # NULL

\* map(c => [endpoint without its trailing slash, teamid, toolid, log, loginterval])
configMap(c) ==
    [endpoint    |-> IF endsWith(c.endpoint[1], "/") THEN sliceLast(c.endpoint[1])
                     ELSE c.endpoint[1],
     team        |-> c.team,
     tool        |-> c.tool,
     log         |-> c.log,
     loginterval |-> c.loginterval]

\* JavaScript truthiness of a string: neither null/undefined nor empty
truthyChars(str) == str # <<>>
truthyString(opt) == opt # NULL /\ opt[1] # ""

\* A default parameter value replaces undefined
Default(opt, d) == IF opt = NULL THEN d ELSE opt[1]

----------------------------------------------------------------------------
(* The service's subscription fields and the subscribers they refer to *)

Svc ==
    [submitSubscription         |-> submitSubscription,
     interactionlogSubscription |-> interactionlogSubscription,
     resultsSubscription        |-> resultsSubscription,
     submitSubs                 |-> submitSubs,
     ilogSubs                   |-> ilogSubs,
     resSubs                    |-> resSubs]

\* Subscription.unsubscribe(): the subscriber is detached; a closed one stays closed
unsubscribe(heap, id) == [g \in DOMAIN heap \ {id} |-> heap[g]]

\* subscribe(): a new subscriber with id g is attached
subscribe(heap, g, closure) ==
    [h \in DOMAIN heap \cup {g} |-> IF h = g THEN closure ELSE heap[h]]

\* Mutant: the reference is dropped but the submission is not cancelled
cleanupSubmitKeepsLive(s) ==
    IF s.submitSubscription # NoSub
    THEN [s EXCEPT !.submitSubscription = NoSub]
    ELSE s

\* the first branch of cleanup
cleanupSubmit(s) ==
    IF s.submitSubscription # NoSub
    THEN [s EXCEPT !.submitSubs = unsubscribe(@, s.submitSubscription),
                   !.submitSubscription = NoSub]
    ELSE s

\* Mutant: the reference is dropped but the subscription is not cancelled
cleanupInteractionlogKeepsLive(s) ==
    IF s.interactionlogSubscription # NoSub
    THEN [s EXCEPT !.interactionlogSubscription = NoSub]
    ELSE s

cleanupInteractionlog(s) ==
    IF s.interactionlogSubscription # NoSub
    THEN [s EXCEPT !.ilogSubs = unsubscribe(@, s.interactionlogSubscription),
                   !.interactionlogSubscription = NoSub]
    ELSE s

\* Mutant: the third branch without its unsubscribe call
cleanupResultsKeepsLive(s) ==
    IF s.resultsSubscription # NoSub
    THEN [s EXCEPT !.interactionlogSubscription = NoSub]
    ELSE s

\* the third branch unsubscribes _resultsSubscription and then assigns null to
\* _interactionlogSubscription: _resultsSubscription keeps its (closed) reference
cleanupResults(s) ==
    IF s.resultsSubscription # NoSub
    THEN [s EXCEPT !.resSubs = unsubscribe(@, s.resultsSubscription),
                   !.interactionlogSubscription = NoSub]
    ELSE s

cleanup(s) == cleanupResults(cleanupInteractionlog(cleanupSubmit(s)))

\* The subscriber state of bufferTime(loginterval): closure, buffer, interval timer
newInteractionlog(endpoint, team, tool, loginterval) ==
    [endpoint |-> endpoint, team |-> team, tool |-> tool,
     loginterval |-> loginterval, buffer |-> <<>>, timer |-> loginterval]

\* The subscriber state of debounceTime(1000): closure, pending value, timer
newResults(endpoint, team, tool) ==
    [endpoint |-> endpoint, team |-> team, tool |-> tool,
     armed |-> FALSE, value |-> <<>>, timer |-> 0]

newSubmit(endpoint, team, tool) ==
    [endpoint |-> endpoint, team |-> team, tool |-> tool]

\* Mutant: the logging subscriptions are created whatever the log flag says
resetLoggingAlways(s, g, endpoint, team, tool, log, loginterval) ==
    [s EXCEPT
       !.ilogSubs = subscribe(@, g, newInteractionlog(endpoint, team, tool, loginterval)),
       !.interactionlogSubscription = g,
       !.resSubs = subscribe(@, g, newResults(endpoint, team, tool)),
       !.resultsSubscription = g]

\* if (log == true) { interaction log subscription; results subscription }
resetLogging(s, g, endpoint, team, tool, log, loginterval) ==
    IF log = TRUE
    THEN [s EXCEPT
            !.ilogSubs = subscribe(@, g, newInteractionlog(endpoint, team, tool, loginterval)),
            !.interactionlogSubscription = g,
            !.resSubs = subscribe(@, g, newResults(endpoint, team, tool)),
            !.resultsSubscription = g]
    ELSE s

resetSubmit(s, g, endpoint, team, tool) ==
    [s EXCEPT !.submitSubs = subscribe(@, g, newSubmit(endpoint, team, tool)),
              !.submitSubscription = g]

\* Mutant: reset without its leading call of cleanup
resetWithoutCleanup(s, g, endpoint, team, tool, log, loginterval) ==
    resetSubmit(
        resetLogging(s, g, endpoint, team[1], Default(tool, DefaultTool),
                     Default(log, FALSE), Default(loginterval, DefaultLogInterval)),
        g, endpoint, team[1], Default(tool, DefaultTool))

\* Mutant: the submission subscription is set up inside the if (log == true) block
resetSubmitOnlyWhenLogging(s, g, endpoint, team, tool, log, loginterval) ==
    IF Default(log, FALSE) = TRUE
    THEN resetSubmit(
             resetLogging(cleanup(s), g, endpoint, team[1], Default(tool, DefaultTool),
                          TRUE, Default(loginterval, DefaultLogInterval)),
             g, endpoint, team[1], Default(tool, DefaultTool))
    ELSE cleanup(s)

\* reset(endpoint, team, tool = 1, log = false, loginterval = 5000); g is the id
\* of the subscriptions this call creates
reset(s, g, endpoint, team, tool, log, loginterval) ==
    resetSubmit(
        resetLogging(cleanup(s), g, endpoint, team[1], Default(tool, DefaultTool),
                     Default(log, FALSE), Default(loginterval, DefaultLogInterval)),
        g, endpoint, team[1], Default(tool, DefaultTool))

\* The subscriber of this._config: the body of the constructor's subscribe callback
onConfig(s, g, t) ==
    IF truthyChars(t.endpoint) /\ truthyString(t.team)
    THEN reset(s, g, t.endpoint, t.team, t.tool, t.log, t.loginterval)
    ELSE cleanup(s)

----------------------------------------------------------------------------
(* Numbers and strings of the submission pipeline *)

NaN == <<"nan", 0>>
Infinity == <<"inf", 0>>
Num(n) == <<"num", n>>

Digits == <<"0", "1", "2", "3", "4", "5", "6", "7", "8", "9">>
isDigit(ch) == \E d \in 1..10 : Digits[d] = ch
digitValue(ch) == (CHOOSE d \in 1..10 : Digits[d] = ch) - 1

RECURSIVE digitPrefix(_)
\* the longest prefix of str made of decimal digits
digitPrefix(str) ==
    IF Len(str) = 0 \/ ~isDigit(str[1]) THEN <<>>
    ELSE <<str[1]>> \o digitPrefix(Tail(str))

RECURSIVE digitsValue(_, _)
digitsValue(str, acc) ==
    IF Len(str) = 0 THEN acc
    ELSE digitsValue(Tail(str), 10 * acc + digitValue(str[1]))

RECURSIVE natToString(_)
\* Number.prototype.toString of a natural number
natToString(n) ==
    IF n < 10 THEN <<Digits[n + 1]>>
    ELSE natToString(n \div 10) \o <<Digits[(n % 10) + 1]>>

\* String(x) / x.toString() of a number
numToString(x) ==
    IF x[1] = "nan" THEN <<"N", "a", "N">>
    ELSE IF x[1] = "inf" THEN <<"I", "n", "f", "i", "n", "i", "t", "y">>
    ELSE IF x[2] < 0 THEN <<"-">> \o natToString(0 - x[2])
    ELSE natToString(x[2])

\* parseInt(str): the leading decimal digits, NaN when there are none
parseInt(str) ==
    IF digitPrefix(str) = <<>> THEN NaN ELSE Num(digitsValue(digitPrefix(str), 0))

\* Number.parseFloat(str) on undefined, "NaN", "Infinity" and digit strings
parseFloat(opt) ==
    IF opt = NULL THEN NaN
    ELSE IF opt[1] = <<"I", "n", "f", "i", "n", "i", "t", "y">> THEN Infinity
    ELSE parseInt(opt[1])

\* str.replace('v_', ''): the first occurrence of "v_" is removed
RECURSIVE replacePrefixV(_)
replacePrefixV(str) ==
    IF Len(str) < 2 THEN str
    ELSE IF str[1] = "v" /\ str[2] = "_" THEN SubSeq(str, 3, Len(str))
    ELSE <<str[1]>> \o replacePrefixV(Tail(str))

\* timeToFrame(timestamp, fps) = Math.floor(timestamp * fps); the timestamp is
\* held in milliseconds, so the product is divided by 1000 before the floor
timeToFrame(timestampMs, fps) ==
    IF fps[1] = "nan" THEN NaN
    ELSE IF fps[1] = "inf" THEN (IF timestampMs = 0 THEN NaN ELSE Infinity)
    ELSE Num((timestampMs * fps[2]) \div 1000)

\* the first map of the submit pipeline: fps from metadata, else bestEffortFPS
resolveFps(segment) ==
    IF parseFloat(segment.fps)[1] # "num" THEN segment.bestEffort
    ELSE parseFloat(segment.fps)

\* s1 has usable metadata; s2 has no fps metadata and an estimate that is NaN;
\* s3 has fps metadata "NaN" and a negative estimate; s4 has an object id
\* without a number
Segments ==
    { [segmentId |-> "s1", objectId |-> <<"v", "_", "0", "0", "7">>,
       fps |-> Some(<<"2", "5">>), bestEffort |-> Num(30)],
      [segmentId |-> "s2", objectId |-> <<"v", "_", "1", "2">>,
       fps |-> NULL, bestEffort |-> NaN],
      [segmentId |-> "s3", objectId |-> <<"v", "_", "1", "2">>,
       fps |-> Some(<<"N", "a", "N">>), bestEffort |-> Num(0 - 30)],
      [segmentId |-> "s4", objectId |-> <<"v", "_", "x">>,
       fps |-> Some(<<"2", "5">>), bestEffort |-> Num(30)] }

Times == {2500}

----------------------------------------------------------------------------
(* HTTP requests *)

\* this._http.post(`${endpoint}/log`, JSON.stringify(log), {params: team, member})
postLog(kind, g, sub, items) ==
    [kind |-> kind, gen |-> g, endpoint |-> sub.endpoint, path |-> "/log",
     team |-> sub.team, member |-> numToString(Num(sub.tool)),
     items |-> items, video |-> <<>>, frame |-> <<>>]

\* this._http.get(`${endpoint}/submit`, {params: team, member, video, frame})
getSubmit(g, sub, segment, frame) ==
    [kind |-> "submit", gen |-> g, endpoint |-> sub.endpoint, path |-> "/submit",
     team |-> sub.team, member |-> numToString(Num(sub.tool)),
     items |-> <<>>,
     video |-> numToString(parseInt(replacePrefixV(segment.objectId))),
     frame |-> numToString(frame)]

\* VbsInteractionLog.mapEventStream: one VbsInteraction per interaction event
mapEventStream(e) == e

\* Mutant: the emptiness test is off by one
interactionLogMapOffByOne(events) == IF Len(events) > 1 THEN Some(events) ELSE NULL

\* map of the interaction pipeline: a log for a non-empty buffer, else null
interactionLogMap(events) == IF Len(events) > 0 THEN Some(events) ELSE NULL

\* this._queryService.results.segmentsAsObservable: the current ranking
segmentsAsObservable == ranking

\* VbsResultsLog.mapSegmentScoreContainer: null for an empty ranking
mapSegmentScoreContainer(r) == IF Len(r) > 0 THEN Some(r) ELSE NULL

\* Mutant: the filter lets every query state through
endedFilterOpen(f) == TRUE

\* filter(f => f === 'ENDED')
endedFilter(f) == f = "ENDED"

RECURSIVE Ascending(_)
\* the ids of a set of subscribers in subscription order
Ascending(S) ==
    IF S = {} THEN <<>>
    ELSE LET m == CHOOSE x \in S : \A y \in S : x <= y
         IN <<m>> \o Ascending(S \ {m})

----------------------------------------------------------------------------
(* Initial state: the service constructed, no configuration emitted yet *)

EmptyHeap == [g \in {} |-> NULL]

Init ==
    /\ submitSubscription = NoSub
    /\ interactionlogSubscription = NoSub
    /\ resultsSubscription = NoSub
    /\ submitSubs = EmptyHeap
    /\ ilogSubs = EmptyHeap
    /\ resSubs = EmptyHeap
    /\ gen = 0
    /\ latest = NULL
    /\ delivered = NULL
    /\ repeated = FALSE
    /\ cfgCount = 0
    /\ isOnCount = 0
    /\ isOnLast = FALSE
    /\ nextEvent = 1
    /\ busWindow = <<>>
    /\ ranking = <<>>
    /\ endedCount = 0
    /\ burstCount = 0
    /\ sinceEnded = DebounceTime
    /\ burstRanking = <<>>
    /\ sent = <<>>
    /\ inflight = {}
    /\ failed = {}
    /\ consoleLog = {}
    /\ snacks = <<>>
    /\ selected = <<>>
    /\ submitCount = 0

svcVars == <<submitSubscription, interactionlogSubscription, resultsSubscription,
             submitSubs, ilogSubs, resSubs>>
cfgVars == <<gen, latest, delivered, repeated, cfgCount, isOnCount, isOnLast>>
busVars == <<nextEvent, busWindow>>
queryVars == <<ranking, endedCount, burstCount, sinceEnded, burstRanking>>
httpVars == <<sent, inflight, failed, consoleLog, snacks>>
submitVars == <<selected, submitCount>>

\* The timers that are running: one interval timer per bufferTime subscriber and
\* one timeout per debounceTime subscriber that holds a value
Timers ==
    {ilogSubs[g].timer : g \in DOMAIN ilogSubs}
        \cup {resSubs[g].timer : g \in {h \in DOMAIN resSubs : resSubs[h].armed}}

\* A timer that is due fires before anything else happens
NoTimerDue == 0 \notin Timers

SetSvc(s) ==
    /\ submitSubscription' = s.submitSubscription
    /\ interactionlogSubscription' = s.interactionlogSubscription
    /\ resultsSubscription' = s.resultsSubscription
    /\ submitSubs' = s.submitSubs
    /\ ilogSubs' = s.ilogSubs
    /\ resSubs' = s.resSubs

----------------------------------------------------------------------------
(* Actions *)

\* get isOn: map(([endpoint, team]) => endpoint != null && team != null) on
\* this._config; the endpoint of a tuple is a string, which is never null
isOnMap(t) == t.endpoint = t.endpoint /\ t.team # NULL

\* The configuration source emits snapshot c; the subscriber of the constructor
\* and a subscriber of isOn both receive what passes the filter
Config(c) ==
    /\ NoTimerDue
    /\ cfgCount < MaxConfigs
    /\ cfgCount' = cfgCount + 1
    /\ latest' = Some(c)
    /\ repeated' = (latest = Some(c))
    /\ IF configFilter(c)
       THEN /\ SetSvc(onConfig(Svc, gen + 1, configMap(c)))
            /\ gen' = gen + 1
            /\ delivered' = Some(configMap(c))
            /\ isOnCount' = isOnCount + 1
            /\ isOnLast' = isOnMap(configMap(c))
            /\ busWindow' = <<>>
            /\ UNCHANGED nextEvent
       ELSE UNCHANGED <<svcVars, gen, delivered, isOnCount, isOnLast, busVars>>
    /\ UNCHANGED <<queryVars, httpVars, submitVars>>

\* An interaction event is published on the event bus
Publish ==
    /\ NoTimerDue
    /\ nextEvent <= MaxEvents
    /\ nextEvent' = nextEvent + 1
    /\ busWindow' = Append(busWindow, nextEvent)
    /\ ilogSubs' = [g \in DOMAIN ilogSubs |->
                      [ilogSubs[g] EXCEPT !.buffer = Append(@, mapEventStream(nextEvent))]]
    /\ UNCHANGED <<submitSubscription, interactionlogSubscription, resultsSubscription,
                   submitSubs, resSubs, cfgVars, queryVars, httpVars, submitVars>>

\* the requests a closing window hands to HttpClient: map, filter, flatMap
windowRequests(g, sub) ==
    IF interactionLogMap(sub.buffer) # NULL
    THEN <<postLog("ilog", g, sub, interactionLogMap(sub.buffer)[1])>>
    ELSE <<>>

\* The interval timer of bufferTime fires for subscriber g
WindowClose(g) ==
    /\ g \in DOMAIN ilogSubs
    /\ ilogSubs[g].timer = 0
    /\ sent' = sent \o windowRequests(g, ilogSubs[g])
    /\ inflight' = inflight \cup (Len(sent) + 1 .. Len(sent'))
    /\ ilogSubs' = [ilogSubs EXCEPT ![g].buffer = <<>>, ![g].timer = ilogSubs[g].loginterval]
    /\ busWindow' = <<>>
    /\ UNCHANGED <<submitSubscription, interactionlogSubscription, resultsSubscription,
                   submitSubs, resSubs, cfgVars, nextEvent, queryVars, failed, consoleLog, snacks, submitVars>>

\* Mutant: a value that arrives while one is pending replaces it without
\* restarting the timeout
onQueryStateNoRestart(sub, f) ==
    IF endedFilter(f)
    THEN [sub EXCEPT !.armed = TRUE, !.value = segmentsAsObservable,
                     !.timer = IF sub.armed THEN sub.timer ELSE DebounceTime]
    ELSE sub

\* the state of a debounceTime subscriber after the query service emitted f
onQueryState(sub, f) ==
    IF endedFilter(f)
    THEN [sub EXCEPT !.armed = TRUE, !.value = segmentsAsObservable, !.timer = DebounceTime]
    ELSE sub

\* The query service emits the state f
QuerySignal(f) ==
    /\ NoTimerDue
    /\ f = "ENDED" => endedCount < MaxEnded
    /\ resSubs' = [g \in DOMAIN resSubs |-> onQueryState(resSubs[g], f)]
    /\ IF f = "ENDED"
       THEN /\ endedCount' = endedCount + 1
            /\ burstCount' = IF sinceEnded >= DebounceTime THEN burstCount + 1 ELSE burstCount
            /\ sinceEnded' = 0
            /\ burstRanking' = ranking
       ELSE UNCHANGED <<endedCount, burstCount, sinceEnded, burstRanking>>
    /\ UNCHANGED <<submitSubscription, interactionlogSubscription, resultsSubscription,
                   submitSubs, ilogSubs, cfgVars, busVars, ranking, httpVars, submitVars>>

\* The query service replaces its ranking
ResultsChanged(r) ==
    /\ NoTimerDue
    /\ r # ranking
    /\ ranking' = r
    /\ UNCHANGED <<svcVars, cfgVars, busVars, endedCount, burstCount, sinceEnded,
                   burstRanking, httpVars, submitVars>>

\* the requests a settled debounce hands to HttpClient: map, filter, flatMap
debounceRequests(g, sub) ==
    IF mapSegmentScoreContainer(sub.value) # NULL
    THEN <<postLog("rlog", g, sub, mapSegmentScoreContainer(sub.value)[1])>>
    ELSE <<>>

\* The timeout of debounceTime fires for subscriber g
DebounceFire(g) ==
    /\ g \in DOMAIN resSubs
    /\ resSubs[g].armed
    /\ resSubs[g].timer = 0
    /\ sent' = sent \o debounceRequests(g, resSubs[g])
    /\ inflight' = inflight \cup (Len(sent) + 1 .. Len(sent'))
    /\ resSubs' = [resSubs EXCEPT ![g].armed = FALSE, ![g].value = <<>>]
    /\ UNCHANGED <<submitSubscription, interactionlogSubscription, resultsSubscription,
                   submitSubs, ilogSubs, cfgVars, busVars, queryVars, failed, consoleLog, snacks, submitVars>>

\* Time passes: by TickMs, or less when a timer is due sooner
TickStep == CHOOSE d \in Timers \cup {TickMs} : \A e \in Timers \cup {TickMs} : d <= e

Tick ==
    /\ NoTimerDue
    /\ ilogSubs' = [g \in DOMAIN ilogSubs |->
                      [ilogSubs[g] EXCEPT !.timer = @ - TickStep]]
    /\ resSubs' = [g \in DOMAIN resSubs |->
                      IF resSubs[g].armed
                      THEN [resSubs[g] EXCEPT !.timer = @ - TickStep]
                      ELSE resSubs[g]]
    /\ sinceEnded' = Min(DebounceTime, sinceEnded + TickStep)
    /\ UNCHANGED <<submitSubscription, interactionlogSubscription, resultsSubscription,
                   submitSubs, cfgVars, busVars, ranking, endedCount, burstCount,
                   burstRanking, httpVars, submitVars>>

\* Mutant: concatMap in place of flatMap, nothing is handed over while a call
\* is in flight
submitRequestsSerial(segment, time) ==
    IF inflight # {} THEN <<>>
    ELSE [i \in 1..Cardinality(DOMAIN submitSubs) |->
             getSubmit(gen, submitSubs[gen], segment,
                       timeToFrame(time, resolveFps(segment)))]

\* the requests one submit hands to HttpClient, one per subscriber of _submitSubject
submitRequests(segment, time) ==
    LET ids == Ascending(DOMAIN submitSubs)
    IN [i \in 1..Len(ids) |->
          getSubmit(ids[i], submitSubs[ids[i]], segment,
                    timeToFrame(time, resolveFps(segment)))]

\* SelectionService.availableTags
AvailableTags == <<"tag1", "tag2">>

\* Mutant: the selection is recorded only when a subscriber took the request
selectionAddWhenSubscribed(sel, segment) ==
    IF DOMAIN submitSubs = {} THEN sel
    ELSE Append(sel, [tag |-> AvailableTags[1], segmentId |-> segment.segmentId])

\* this._selection.add(this._selection.availableTags[0], segment.segmentId)
selectionAdd(sel, segment) ==
    Append(sel, [tag |-> AvailableTags[1], segmentId |-> segment.segmentId])

\* submit(segment, time)
Submit(segment, time) ==
    /\ NoTimerDue
    /\ submitCount < MaxSubmits
    /\ submitCount' = submitCount + 1
    /\ sent' = sent \o submitRequests(segment, time)
    /\ inflight' = inflight \cup (Len(sent) + 1 .. Len(sent'))
    /\ selected' = selectionAdd(selected, segment)
    /\ UNCHANGED <<svcVars, cfgVars, busVars, queryVars, failed, consoleLog, snacks>>

\* The texts a response can carry, as the words the classification looks for
ResponseTexts == {<<"Correct">>, <<"Wrong">>, <<"Wrong", "Correct">>, <<"Timeout">>}
FailureText == <<"Failed", "HTTP", "error">>

\* indexOf(word) > -1
contains(msg, word) == \E i \in 1..Len(msg) : msg[i] = word

\* Mutant: the test for "Wrong" comes first
classifyWrongFirst(msg) ==
    IF contains(msg, "Wrong") THEN "snackbar-error"
    ELSE IF contains(msg, "Correct") THEN "snackbar-success"
    ELSE "snackbar-warning"

\* the last map of the submit pipeline
classify(msg) ==
    IF contains(msg, "Correct") THEN "snackbar-success"
    ELSE IF contains(msg, "Wrong") THEN "snackbar-error"
    ELSE "snackbar-warning"

\* Mutant: without catchError the error of a POST /log reaches the subscriber,
\* which ends its subscription
onLogResponseErrorEnds(s, i, ok) ==
    IF ok THEN s
    ELSE IF sent[i].kind = "ilog"
         THEN [s EXCEPT !.ilogSubs = unsubscribe(@, sent[i].gen)]
         ELSE [s EXCEPT !.resSubs = unsubscribe(@, sent[i].gen)]

\* tap and catchError of the two log pipelines: the text, or the failure message
\* in place of the error, is passed on to a subscriber without callbacks; the
\* subscriptions stay as they are
onLogResponse(s, i, ok) == s

\* Mutant: the inner subscriptions of flatMap outlive unsubscribe
subscribedForever(i) == i \in 1..Len(sent)

\* the subscription that sent request i is still subscribed to its call
subscribed(i) ==
    \/ sent[i].kind = "submit" /\ sent[i].gen \in DOMAIN submitSubs
    \/ sent[i].kind = "ilog" /\ sent[i].gen \in DOMAIN ilogSubs
    \/ sent[i].kind = "rlog" /\ sent[i].gen \in DOMAIN resSubs

\* the notifications the response to request i opens: one if the submission
\* subscription that sent the request is still live, none otherwise
notifications(i, msg) ==
    IF subscribed(i)
    THEN <<[request |-> i, msg |-> msg, panelClass |-> classify(msg)]>>
    ELSE <<>>

\* console.log: in tap for a text that arrives, in map for every message of the
\* submission pipeline; nothing runs for a call whose subscriber is gone
consoleOutput(i, ok) ==
    IF subscribed(i) /\ (ok \/ sent[i].kind = "submit") THEN {i} ELSE {}

\* The response to request i arrives: text on success, an error otherwise
\* (catchError turns the error into the failure message)
HttpResponse(i, ok, text) ==
    /\ NoTimerDue
    /\ i \in inflight
    /\ inflight' = inflight \ {i}
    /\ failed' = IF ok THEN failed ELSE failed \cup {<<i, Len(sent)>>}
    /\ consoleLog' = consoleLog \cup consoleOutput(i, ok)
    /\ IF sent[i].kind = "submit"
       THEN /\ snacks' = snacks \o notifications(i, IF ok THEN text ELSE FailureText)
            /\ UNCHANGED svcVars
       ELSE /\ SetSvc(onLogResponse(Svc, i, ok))
            /\ UNCHANGED snacks
    /\ UNCHANGED <<cfgVars, busVars, queryVars, sent, submitVars>>

ConfigOf(snapshots) == \E c \in snapshots : Config(c)
ConfigStep == ConfigOf(Snapshots)
WindowCloseStep == \E g \in DOMAIN ilogSubs : WindowClose(g)
QuerySignalStep == \E f \in QueryStates : QuerySignal(f)
ResultsChangedStep == \E r \in Rankings : ResultsChanged(r)
DebounceFireStep == \E g \in DOMAIN resSubs : DebounceFire(g)
SubmitOf(segments) == \E segment \in segments, time \in Times : Submit(segment, time)
SubmitStep == SubmitOf(Segments)
HttpResponseOf(texts) ==
    \E i \in inflight, ok \in BOOLEAN, text \in texts : HttpResponse(i, ok, text)
HttpResponseStep == HttpResponseOf(ResponseTexts)

\* The segments with a usable object id, and one response text, for the
\* specifications that are not about metadata or classification
PlainSegments == {s \in Segments : s.segmentId \in {"s1", "s2"}}
PlainTexts == {<<"Correct">>}
OneSegment == {s \in Segments : s.segmentId = "s1"}

\* The whole service
Next ==
    \/ ConfigStep
    \/ Publish
    \/ WindowCloseStep
    \/ QuerySignalStep
    \/ ResultsChangedStep
    \/ DebounceFireStep
    \/ Tick
    \/ SubmitStep
    \/ HttpResponseStep

Spec == Init /\ [][Next]_vars

\* The service with the interaction pipeline driven: the query service stays
\* silent and nobody calls submit
NextInteraction ==
    \/ ConfigStep
    \/ Publish
    \/ WindowCloseStep
    \/ Tick

SpecInteraction == Init /\ [][NextInteraction]_vars

\* Both log pipelines with the responses to their POSTs, for one logging
\* snapshot and one ranking, in an environment that either publishes
\* interaction events or runs queries
NextLogTransport ==
    \/ ConfigOf({SnapA, SnapNoTeam})
    \/ endedCount = 0 /\ ranking = <<>> /\ Publish
    \/ WindowCloseStep
    \/ nextEvent = 1 /\ QuerySignal("ENDED")
    \/ nextEvent = 1 /\ ResultsChanged(<<1>>)
    \/ DebounceFireStep
    \/ Tick
    \/ HttpResponseOf(PlainTexts)

SpecLogTransport == Init /\ [][NextLogTransport]_vars

\* The service with the results pipeline driven: the event bus stays silent and
\* nobody calls submit
NextResults ==
    \/ ConfigStep
    \/ QuerySignalStep
    \/ ResultsChangedStep
    \/ DebounceFireStep
    \/ WindowCloseStep
    \/ Tick

SpecResults == Init /\ [][NextResults]_vars

\* The service with the submission pipeline driven: the event bus and the query
\* service stay silent
NextSubmit ==
    \/ ConfigStep
    \/ WindowCloseStep
    \/ Tick
    \/ SubmitOf(OneSegment)
    \/ HttpResponseOf(PlainTexts)

SpecSubmit == Init /\ [][NextSubmit]_vars

\* The submission pipeline without time: no window closes
NextDispatch ==
    \/ ConfigStep
    \/ SubmitOf(PlainSegments)
    \/ HttpResponseOf(PlainTexts)

SpecDispatch == Init /\ [][NextDispatch]_vars

\* Submissions of every kind of segment, no responses, no time
NextMetadata ==
    \/ ConfigStep
    \/ SubmitStep

SpecMetadata == Init /\ [][NextMetadata]_vars

\* Every response text to the submissions of one segment, no time
NextClassify ==
    \/ ConfigStep
    \/ SubmitOf(OneSegment)
    \/ HttpResponseStep

SpecClassify == Init /\ [][NextClassify]_vars

----------------------------------------------------------------------------
(* Vocabulary of the properties *)

Range(seq) == {seq[i] : i \in 1..Len(seq)}

\* a snapshot is active iff endpoint and team are both non-null
Active(c) == c.endpoint # NULL /\ c.team # NULL

SubmissionLive == DOMAIN submitSubs # {}
InteractionLive == DOMAIN ilogSubs # {}
ResultsLive == DOMAIN resSubs # {}

\* the lifecycle controller is RUNNING: a submission subscription is live
Running == SubmissionLive

\* the requests of one kind among sent
Batches(kind) == {i \in 1..Len(sent) : sent[i].kind = kind}

\* the requests the step under consideration hands to HttpClient
NewRequests == SubSeq(sent', Len(sent) + 1, Len(sent'))
NewOfKind(kind) == SelectSeq(NewRequests, LAMBDA r : r.kind = kind)
NewLogBatches == SelectSeq(NewRequests, LAMBDA r : r.kind \in {"ilog", "rlog"})

\* the last snapshot that reached the subscriber made it call reset
LastDeliveredComplete ==
    /\ delivered # NULL
    /\ truthyChars(delivered[1].endpoint)
    /\ truthyString(delivered[1].team)

LastDeliveredLogs == delivered # NULL /\ Default(delivered[1].log, FALSE) = TRUE

----------------------------------------------------------------------------
(* C1: after any sequence of snapshots the controller is RUNNING if and only
   if the most recent snapshot is active (endpoint and team both non-null).
   Stated as the claim has it; the snapshot without endpoint refutes it. *)
C1_RunningIffLatestActive ==
    Running <=> (latest # NULL /\ Active(latest[1]))

(* C2: while a snapshot with endpoint = null is the most recent one (the
   controller then being stopped, as the claim has it), no step transmits an
   interaction or result batch, whatever arrives on the event bus.  Refuted by
   a window that closes after the snapshot without endpoint. *)
C2_NoBatchAfterStop ==
    [][(latest # NULL /\ latest[1].endpoint = NULL) => NewLogBatches = <<>>]_vars

(* C3: at most one live interaction-log, one live results and one live
   submission subscription exist in every state, and every live subscription
   was created by the most recent reconfiguration: none of an earlier
   generation survives reset. *)
C3_OneLiveGeneration ==
    /\ Cardinality(DOMAIN submitSubs) <= 1
    /\ Cardinality(DOMAIN ilogSubs) <= 1
    /\ Cardinality(DOMAIN resSubs) <= 1
    /\ \A g \in DOMAIN submitSubs \cup DOMAIN ilogSubs \cup DOMAIN resSubs : g = gen

\* a second generation is live and the first one has transmitted
C3_Witness ==
    /\ gen = 2
    /\ DOMAIN submitSubs = {2} /\ DOMAIN ilogSubs = {2} /\ DOMAIN resSubs = {2}
    /\ \E i \in 1..Len(sent) : sent[i].gen = 1

(* C4: two generations of the interaction aggregator never run concurrently,
   and every log batch transmitted carries the team, the tool and the endpoint
   of the configuration delivered last: after a reconfiguration from team A to
   team B no batch with team A is transmitted. *)
C4_NoStaleBatch ==
    [][/\ Cardinality(DOMAIN ilogSubs') <= 1
       /\ \A i \in 1..Len(NewLogBatches) :
            /\ LastDeliveredComplete
            /\ NewLogBatches[i].team = delivered[1].team[1]
            /\ NewLogBatches[i].member =
                   numToString(Num(Default(delivered[1].tool, DefaultTool)))
            /\ NewLogBatches[i].endpoint = delivered[1].endpoint
            /\ NewLogBatches[i].gen = gen]_vars

\* a batch of team A was transmitted, then the service was reconfigured to
\* team B and a batch of team B was transmitted
C4_Witness ==
    \E i, j \in 1..Len(sent) :
        /\ i < j
        /\ sent[i].kind = "ilog" /\ sent[i].team = "A" /\ sent[i].endpoint = <<"a">>
        /\ sent[j].kind = "ilog" /\ sent[j].team = "B" /\ sent[j].endpoint = <<"b">>

(* C5: delivering the same active snapshot twice in a row leaves exactly one
   live set of subscriptions, and no interaction event is ever transmitted in
   more than one interaction batch. *)
C5_Idempotent ==
    /\ \A e \in 1..(nextEvent - 1) :
           Cardinality({i \in Batches("ilog") : e \in Range(sent[i].items)}) <= 1
    /\ (repeated /\ Active(latest[1])) =>
           /\ Cardinality(DOMAIN submitSubs) = 1
           /\ Cardinality(DOMAIN ilogSubs) <= 1
           /\ Cardinality(DOMAIN resSubs) <= 1
           /\ LastDeliveredLogs =>
                  Cardinality(DOMAIN ilogSubs) = 1 /\ Cardinality(DOMAIN resSubs) = 1

\* the same logging snapshot came twice in a row and the generation started by
\* the second delivery has transmitted a batch
C5_Witness ==
    /\ repeated /\ Active(latest[1]) /\ LastDeliveredLogs
    /\ \E i \in Batches("ilog") : sent[i].gen = gen

(* C6: as claimed, every snapshot with endpoint and team starts all three
   stages whatever the logging flag is, and after any other snapshot none of
   the three is live.  Stated as the claim has it; refuted by a complete
   snapshot with logging off. *)
C6_AllThreeStagesLive ==
    latest # NULL =>
        IF Active(latest[1])
        THEN SubmissionLive /\ InteractionLive /\ ResultsLive
        ELSE ~SubmissionLive /\ ~InteractionLive /\ ~ResultsLive

(* C6, amended: after a snapshot with endpoint and team has been delivered,
   the submission pipeline is live and the interaction and result aggregators
   are live exactly when the logging flag is true; after a delivered snapshot
   without team, and before any delivery, none of the three is live.
   (Snapshots without endpoint are not delivered.) *)
C6_StagesFollowLogFlag ==
    IF LastDeliveredComplete
    THEN /\ DOMAIN submitSubs = {gen}
         /\ InteractionLive <=> LastDeliveredLogs
         /\ ResultsLive <=> LastDeliveredLogs
         /\ LastDeliveredLogs => DOMAIN ilogSubs = {gen} /\ DOMAIN resSubs = {gen}
    ELSE ~SubmissionLive /\ ~InteractionLive /\ ~ResultsLive

\* a complete snapshot with logging off was delivered after one with logging on
C6_Witness ==
    /\ LastDeliveredComplete /\ ~LastDeliveredLogs
    /\ SubmissionLive /\ ~InteractionLive /\ ~ResultsLive
    /\ \E i \in 1..Len(sent) : sent[i].kind = "ilog"

(* C7: whenever the last delivered snapshot made the controller start, the
   submission subscription is live whatever the logging flag is, and every
   submit issued then hands exactly one GET /submit to HttpClient, with the
   team, tool and endpoint of that snapshot. *)
C7_SubmitDispatched ==
    /\ [](LastDeliveredComplete =>
              submitSubscription # NoSub /\ DOMAIN submitSubs = {submitSubscription})
    /\ [][(LastDeliveredComplete /\ submitCount' # submitCount) =>
              /\ Len(NewRequests) = 1
              /\ NewRequests[1].kind = "submit"
              /\ NewRequests[1].path = "/submit"
              /\ NewRequests[1].endpoint = delivered[1].endpoint
              /\ NewRequests[1].team = delivered[1].team[1]
              /\ NewRequests[1].member =
                     numToString(Num(Default(delivered[1].tool, DefaultTool)))
              /\ Len(sent') \in inflight']_vars

\* a submit was dispatched by a generation that runs with logging off
C7_Witness ==
    /\ LastDeliveredComplete /\ ~LastDeliveredLogs
    /\ \E i \in Batches("submit") : sent[i].gen = gen /\ sent[i].team = "B"

(* C8: a window that closes after at least one event was published emits
   exactly one interaction batch holding exactly the events published since the
   window opened, in arrival order; a window without events emits nothing, and
   no batch is emitted except at the close of a window. *)
C8_OneBatchPerWindow ==
    [][/\ Len(NewOfKind("ilog")) <= 1
       /\ NewOfKind("ilog") # <<>> =>
              /\ busWindow # <<>>
              /\ NewOfKind("ilog")[1].items = busWindow
              /\ \E g \in DOMAIN ilogSubs : ilogSubs[g].timer = 0
       /\ (busWindow # <<>> /\ busWindow' = <<>> /\ cfgCount' = cfgCount) =>
              NewOfKind("ilog") # <<>>
       /\ busWindow = <<>> => NewOfKind("ilog") = <<>>]_vars

\* two events in one window and a third in the next: exactly two batches
C8_Witness ==
    /\ Len(sent) = 2
    /\ sent[1].kind = "ilog" /\ sent[1].items = <<1, 2>>
    /\ sent[2].kind = "ilog" /\ sent[2].items = <<3>>
    /\ sent[1].gen = sent[2].gen

(* C9: a burst of ENDED signals, each less than 1000 ms after the one before,
   yields at most one result batch; a batch is emitted only when 1000 ms have
   passed since the last signal and holds the ranking read at that signal; a
   pending value always is the ranking of the last signal and its timeout is
   what is left of the 1000 ms; when the timeout of a non-empty ranking fires,
   the batch is emitted. *)
C9_Debounce ==
    /\ [](Cardinality(Batches("rlog")) <= burstCount)
    /\ [](\A g \in DOMAIN resSubs :
              resSubs[g].armed =>
                  /\ resSubs[g].value = burstRanking
                  /\ resSubs[g].timer + sinceEnded = DebounceTime)
    /\ [][/\ Len(NewOfKind("rlog")) <= 1
          /\ NewOfKind("rlog") # <<>> =>
                 /\ sinceEnded = DebounceTime
                 /\ NewOfKind("rlog")[1].items = burstRanking
          /\ (\E g \in DOMAIN resSubs \cap DOMAIN resSubs' :
                  resSubs[g].armed /\ ~resSubs'[g].armed /\ burstRanking # <<>>) =>
                 NewOfKind("rlog") # <<>>]_vars

\* three signals in one burst, one batch, holding the ranking of the last one
C9_Witness ==
    /\ endedCount = 3 /\ burstCount = 1
    /\ Cardinality(Batches("rlog")) = 1
    /\ \A i \in Batches("rlog") : sent[i].items = burstRanking /\ burstRanking = <<2, 1>>

(* C10: a result batch is transmitted only as the consequence of an ENDED
   signal: the batches never outnumber the ENDED signals, and a step that
   changes the ranking transmits nothing and starts no timeout. *)
C10_OnlyOnEnded ==
    /\ [](Cardinality(Batches("rlog")) <= endedCount)
    /\ [][ranking' # ranking => sent' = sent /\ resSubs' = resSubs]_vars

\* the ranking changed after the one ENDED signal was handled and its batch
\* sent; no second batch followed
C10_Witness ==
    /\ endedCount = 1
    /\ Cardinality(Batches("rlog")) = 1
    /\ \A g \in DOMAIN resSubs : ~resSubs[g].armed
    /\ ResultsLive
    /\ sinceEnded = DebounceTime
    /\ ranking # <<>>
    /\ \A i \in Batches("rlog") : sent[i].items # ranking

(* C11: every call of submit records exactly one selection, for the submitted
   segment under the first available tag, whether or not a submission
   subscription is live; the response of the remote call, whatever it is,
   adds and removes none. *)
C11_SelectionRecorded ==
    /\ [](Len(selected) = submitCount)
    /\ [][/\ submitCount' # submitCount =>
                \E segment \in Segments :
                    /\ selected' = Append(selected, [tag |-> AvailableTags[1],
                                                     segmentId |-> segment.segmentId])
                    /\ \A i \in 1..Len(NewRequests) :
                           NewRequests[i].video =
                               numToString(parseInt(replacePrefixV(segment.objectId)))
          /\ submitCount' = submitCount => selected' = selected]_vars

\* one submit made while no subscription was live and one whose remote call
\* failed: both are recorded
C11_Witness ==
    /\ Len(selected) = 2
    /\ Cardinality(Batches("submit")) = 1
    /\ \E k \in 1..Len(snacks) : snacks[k].msg = FailureText

\* The category the response text msg belongs to
Category(msg) ==
    CASE "Correct" \in Range(msg) -> "snackbar-success"
      [] "Correct" \notin Range(msg) /\ "Wrong" \in Range(msg) -> "snackbar-error"
      [] OTHER -> "snackbar-warning"

\* The notifications opened for request i
SnacksOf(i) == {k \in 1..Len(snacks) : snacks[k].request = i}

\* The remote calls that ended in an error
Failed == {f[1] : f \in failed}

\* The remote calls whose response has arrived
Completed(kind) == Batches(kind) \ inflight

(* C12 as stated: every completed remote /submit call has exactly one
   notification, whose category is success for a text with "Correct", error
   for another text with "Wrong", and warning for the rest. *)
C12_OnePairPerCompletedCall ==
    \A i \in Completed("submit") :
        /\ Cardinality(SnacksOf(i)) = 1
        /\ \A k \in SnacksOf(i) : snacks[k].panelClass = Category(snacks[k].msg)

(* C12, amended: the category of every notification is the total function
   of its text given above, the failure message of a transport error
   having the warning category; a remote /submit call that completes while
   the subscription that dispatched it is live opens exactly one notification,
   with the response text or the failure message, and a call that completes
   after that subscription was disposed opens none. *)
C12_Classification ==
    /\ [](\A k \in 1..Len(snacks) :
              /\ snacks[k].panelClass = Category(snacks[k].msg)
              /\ snacks[k].panelClass \in
                     {"snackbar-success", "snackbar-error", "snackbar-warning"}
              /\ snacks[k].msg = FailureText <=> snacks[k].request \in Failed
              /\ snacks[k].msg = FailureText => snacks[k].panelClass = "snackbar-warning")
    /\ [](\A i \in Completed("submit") : Cardinality(SnacksOf(i)) <= 1)
    /\ [][\A i \in inflight \ inflight' :
              sent[i].kind = "submit" =>
                  IF sent[i].gen \in DOMAIN submitSubs
                  THEN \E msg \in ResponseTexts \cup {FailureText} :
                           snacks' = Append(snacks, [request |-> i, msg |-> msg,
                                                     panelClass |-> Category(msg)])
                  ELSE snacks' = snacks]_vars

C12_Witness ==
    /\ \E k \in 1..Len(snacks) :
           /\ snacks[k].msg = <<"Wrong", "Correct">>
           /\ snacks[k].panelClass = "snackbar-success"
    /\ \E k \in 1..Len(snacks) :
           /\ snacks[k].msg = FailureText
           /\ snacks[k].panelClass = "snackbar-warning"

\* str is the decimal notation of a natural number
IsNatString(str) == str # <<>> /\ \A k \in 1..Len(str) : isDigit(str[k])

(* C13: no remote /submit call is made for a submission whose fps does not
   resolve to a valid value: the frame of every /submit request is a number
   computed from a finite, non-negative fps. *)
C13_NoCallWithInvalidFps ==
    \A i \in Batches("submit") : IsNatString(sent[i].frame)

\* The segment the last call of submit was given
LastSubmitted == CHOOSE s \in Segments : s.segmentId = selected[Len(selected)].segmentId

\* The fps or the video id of segment s does not resolve to a valid number
Unresolvable(s) ==
    \/ resolveFps(s)[1] # "num"
    \/ resolveFps(s)[2] < 0
    \/ parseInt(replacePrefixV(s.objectId))[1] # "num"

(* C17: a submit whose fps or video id cannot be resolved is aborted, and
   only it: it sends nothing, no subscription of the three pipelines changes,
   and every submit with resolvable metadata in a live generation is still
   dispatched. *)
C17_FailureAbortsOnlyThatSubmission ==
    [][submitCount' # submitCount =>
          /\ Unresolvable(LastSubmitted') => NewRequests = <<>>
          /\ ~Unresolvable(LastSubmitted') /\ SubmissionLive => Len(NewRequests) = 1
          /\ UNCHANGED svcVars]_vars

\* The POSTs of one kind that failed, each with a later POST of the same
\* subscription sent after the failure
FailedThenSent(kind) ==
    {f \in failed :
        /\ sent[f[1]].kind = kind
        /\ \E j \in f[2] + 1 .. Len(sent) :
               sent[j].kind = kind /\ sent[j].gen = sent[f[1]].gen}

(* C14: the response to a POST /log, failure included, changes no
   subscription, live or not; and after a failure every window that closes
   with events and every timeout that fires for a non-empty ranking still
   sends its batch. *)
C14_FailureKeepsAggregatorsLive ==
    [][/\ (\E i \in inflight \ inflight' : sent[i].kind \in {"ilog", "rlog"}) =>
              UNCHANGED svcVars
       /\ (failed # {} /\ busWindow # <<>> /\ busWindow' = <<>> /\ cfgCount' = cfgCount) =>
              /\ Len(NewOfKind("ilog")) = 1
              /\ NewOfKind("ilog")[1].items = busWindow
       /\ (failed # {} /\ \E g \in DOMAIN resSubs \cap DOMAIN resSubs' :
                              resSubs[g].armed /\ ~resSubs'[g].armed /\ burstRanking # <<>>) =>
              /\ Len(NewOfKind("rlog")) = 1
              /\ NewOfKind("rlog")[1].items = burstRanking]_vars

\* the POST of one window failed, the interaction subscription is the same
\* and live, and the batch of a later window went out after the failure
C14_Witness ==
    /\ FailedThenSent("ilog") # {}
    /\ \A f \in FailedThenSent("ilog") : sent[f[1]].gen \in DOMAIN ilogSubs
    /\ InteractionLive /\ ResultsLive

\* the same for the POST of a settled ranking
C14_WitnessResults ==
    /\ FailedThenSent("rlog") # {}
    /\ \A f \in FailedThenSent("rlog") : sent[f[1]].gen \in DOMAIN resSubs
    /\ InteractionLive /\ ResultsLive

(* C15: isOn has emitted one value for every snapshot of the configuration
   source, and the last of them is true exactly when the service is RUNNING. *)
C15_IsOnTracksRunning ==
    /\ isOnCount = cfgCount
    /\ isOnCount > 0 => (isOnLast <=> Running)

\* The remote calls dispatched by a generation that has been disposed since
Disposed == {i \in 1..Len(sent) : sent[i].gen < gen}

(* C16: the response to a remote call of a disposed generation, whenever it
   arrives, opens no notification, writes nothing to the console, sends
   nothing (no retry) and changes no subscription. *)
C16_DisposedResultsDiscarded ==
    /\ [][\A i \in (inflight \ inflight') \cap Disposed :
              /\ snacks' = snacks
              /\ consoleLog' = consoleLog
              /\ sent' = sent
              /\ UNCHANGED svcVars]_vars
    /\ [](\A i \in 1..Len(sent) : sent[i].gen \in DOMAIN submitSubs => sent[i].gen = gen)

\* a call of generation 1 was answered after generation 2 had replaced it, with
\* no output, and a call of generation 2 was answered with a notification
C16_Witness ==
    /\ \E i \in Completed("submit") \cap Disposed :
           SnacksOf(i) = {} /\ i \notin consoleLog
    /\ \E i \in Completed("submit") \ Disposed :
           SnacksOf(i) # {} /\ i \in consoleLog
    /\ Running

(* C18: a submit in a live generation hands exactly its own request to the
   HTTP client in the same step, behind all earlier requests and whether or
   not earlier calls are still in flight; a response opens its notification
   when it arrives, behind the notifications of the responses that arrived
   before, whatever the order of dispatch. *)
C18_DispatchInOrder ==
    /\ [][submitCount' # submitCount /\ SubmissionLive =>
              /\ Len(NewRequests) = 1
              /\ NewRequests[1].gen = gen
              /\ NewRequests[1].video =
                     numToString(parseInt(replacePrefixV(LastSubmitted'.objectId)))
              /\ inflight' = inflight \cup {Len(sent')}]_vars
    /\ [][\A i \in (inflight \ inflight') \ Disposed :
              /\ Len(snacks') = Len(snacks) + 1
              /\ snacks'[Len(snacks')].request = i
              /\ SubSeq(snacks', 1, Len(snacks)) = snacks]_vars

\* two calls of one generation, answered in the opposite order
C18_Witness ==
    /\ Len(sent) = 2
    /\ sent[1].gen = sent[2].gen
    /\ sent[1].video # sent[2].video
    /\ Len(snacks) = 2
    /\ snacks[1].request = 2
    /\ snacks[2].request = 1

\* the second call was answered and notified while the first is in flight
C18_WitnessHung ==
    /\ Len(sent) = 2
    /\ sent[1].gen = sent[2].gen
    /\ inflight = {1}
    /\ Len(snacks) = 1 /\ snacks[1].request = 2

(* C19: after a delivery that only calls cleanup the three subscription
   fields are all null and no subscription of the three pipelines is live. *)
C19_CleanupDropsAllHandles ==
    (delivered # NULL /\ ~LastDeliveredComplete) =>
        /\ submitSubscription = NoSub
        /\ interactionlogSubscription = NoSub
        /\ resultsSubscription = NoSub
        /\ ~SubmissionLive /\ ~InteractionLive /\ ~ResultsLive

(* C20: a submit made while the submission field is null, which is exactly
   when no submission subscription is live, sends nothing and notifies
   nothing but records its selection; a request is sent only in the step of a
   submit made while RUNNING, so a later configuration sends nothing for it. *)
C20_StoppedSubmitDropped ==
    /\ [](submitSubscription = NoSub <=> ~SubmissionLive)
    /\ [][submitCount' # submitCount /\ submitSubscription = NoSub =>
              /\ sent' = sent
              /\ snacks' = snacks
              /\ Len(selected') = Len(selected) + 1]_vars
    /\ [][sent' # sent => submitCount' # submitCount /\ submitSubscription # NoSub]_vars
    /\ [][cfgCount' # cfgCount => sent' = sent /\ snacks' = snacks]_vars

\* s2 was submitted while STOPPED and s1 while RUNNING: the one request is that
\* of s1, it is answered, and nothing is left to come
C20_Witness ==
    /\ Len(selected) = 2
    /\ selected[1].segmentId = "s2" /\ selected[2].segmentId = "s1"
    /\ Len(sent) = 1 /\ sent[1].video = <<"7">>
    /\ inflight = {}
    /\ Len(snacks) = 1
    /\ Running

\* Work is pending: events in the buffer of an open window, or a ranking
\* that waits for the end of its debounce period
PendingEvents == \E g \in DOMAIN ilogSubs : ilogSubs[g].buffer # <<>>
PendingRanking == \E g \in DOMAIN resSubs : resSubs[g].armed

(* C21: a snapshot of the configuration source, reconfiguring or stopping,
   transmits nothing itself and leaves nothing pending: after it no live
   window holds an event published before it and no ranking read before it
   waits for its timeout, so what was pending is never transmitted and the
   first window of the new generation starts empty. *)
C21_PendingWorkDiscarded ==
    [][cfgCount' # cfgCount =>
          /\ sent' = sent
          /\ ~PendingEvents'
          /\ ~PendingRanking']_vars
====
